---------------------------- MODULE Spec2Model ----------------------------
(***************************************************************************)
(* docker-inspect2compose (src/docker_inspect2compose/cli.py): one run of  *)
(* main() as a state machine, with the pure translation and merge          *)
(* functions as operators.                                                 *)
(*                                                                         *)
(* Python values are modelled as follows.                                  *)
(*   str            a TLA+ string (TLC evaluates Len, SubSeq and \o on it) *)
(*   list           a sequence                                             *)
(*   dict whose order or key set matters (OrderedDict, the services map,   *)
(*   deploy, the Ports / Networks mappings)                                *)
(*                  a sequence of <<key, value>> pairs in insertion order  *)
(*   dict read by fixed keys (the inspect record and its sections)         *)
(*                  a record; an absent key is absent from its DOMAIN      *)
(*   None / value   the sets {} / {value}                                  *)
(***************************************************************************)
EXTENDS Integers, Sequences, FiniteSets, TLC

---------------------------------------------------------------------------
(* Bounds of the model *)

MaxContainers == 2
MaxEnvLen == 2

---------------------------------------------------------------------------
(* Python built-ins used by the program *)

None == {}
Some(v) == {v}
IsNone(o) == o = {}
Unwrap(o) == CHOOSE v \in o : TRUE

RECURSIVE lstrip(_, _)
lstrip(s, c) ==
    IF Len(s) > 0 /\ SubSeq(s, 1, 1) = c THEN lstrip(SubSeq(s, 2, Len(s)), c) ELSE s

RECURSIVE rstrip(_, _)
rstrip(s, c) ==
    IF Len(s) > 0 /\ SubSeq(s, Len(s), Len(s)) = c
    THEN rstrip(SubSeq(s, 1, Len(s) - 1), c)
    ELSE s

\* Faulty variant of strip: lstrip, which leaves the trailing separators.
strip_leading_only(s, c) == lstrip(s, c)

\* str.strip(chars) with a one-character chars: every leading and every
\* trailing occurrence of the character is removed.
strip(s, c) == rstrip(lstrip(s, c), c)

\* str.startswith(prefix)
startswith(s, prefix) == Len(s) >= Len(prefix) /\ SubSeq(s, 1, Len(prefix)) = prefix

\* Index of the first occurrence of the one-character string c in s, 0 if none.
find(s, c) ==
    IF \E k \in 1..Len(s) : SubSeq(s, k, k) = c
    THEN CHOOSE k \in 1..Len(s) :
            /\ SubSeq(s, k, k) = c
            /\ \A j \in 1..(k - 1) : SubSeq(s, j, j) # c
    ELSE 0

\* s.split(sep)[0]: the part of s before the first sep, all of s if none.
split_first(s, sep) == IF find(s, sep) = 0 THEN s ELSE SubSeq(s, 1, find(s, sep) - 1)

(* dict / OrderedDict as a sequence of <<key, value>> pairs *)
EmptyDict == << >>
keys(d) == [k \in 1..Len(d) |-> d[k][1]]
KeySet(d) == {d[k][1] : k \in 1..Len(d)}
has_key(d, key) == \E k \in 1..Len(d) : d[k][1] = key
get(d, key) == d[CHOOSE k \in 1..Len(d) : d[k][1] = key][2]

\* d[key] = value: an existing key keeps its position, a new key goes last.
setitem(d, key, value) ==
    IF has_key(d, key)
    THEN [k \in 1..Len(d) |-> IF d[k][1] = key THEN <<key, value>> ELSE d[k]]
    ELSE Append(d, <<key, value>>)

\* d.update(other)
RECURSIVE update(_, _)
update(d, other) ==
    IF other = << >> THEN d
    ELSE update(setitem(d, other[1][1], other[1][2]), Tail(other))

---------------------------------------------------------------------------
(* str(NanoCpus / 1e9) *)

Billion == 1000000000

RECURSIVE rstrip_zeros(_)
rstrip_zeros(s) ==
    IF Len(s) > 1 /\ SubSeq(s, Len(s), Len(s)) = "0"
    THEN rstrip_zeros(SubSeq(s, 1, Len(s) - 1))
    ELSE s

RECURSIVE zfill(_, _)
zfill(s, width) == IF Len(s) >= width THEN s ELSE zfill("0" \o s, width)

\* The shortest decimal that reads back as the double n / 1e9.  For
\* 10^5 <= n < 10^16 that is the exact quotient without trailing zeros, with
\* at least one digit after the point (1500000000 -> "1.5", 2000000000 ->
\* "2.0"); the model's quotas are in that range.
float_str(n) ==
    ToString(n \div Billion) \o "." \o rstrip_zeros(zfill(ToString(n % Billion), 9))

---------------------------------------------------------------------------
(* transform_to_compose and its extractors *)

\* The first key, in the order main and transform_to_compose subscript the
\* record, that the record lacks: the key of the KeyError.  "" when every
\* subscripted key is there.  restart_policy.get("MaximumRetryCount", 0)
\* never raises, and log_config["Config"] is read only under a truthy Type.
missing_key(inspect_data) ==
    LET d == inspect_data
        Has(rec, key) == key \in DOMAIN rec
    IN  IF ~Has(d, "Name") THEN "Name"
        ELSE IF ~Has(d, "Config") THEN "Config"
        ELSE IF ~Has(d.Config, "Env") THEN "Env"
        ELSE IF ~Has(d, "HostConfig") THEN "HostConfig"
        ELSE IF ~Has(d.HostConfig, "RestartPolicy") THEN "RestartPolicy"
        ELSE IF ~Has(d.HostConfig.RestartPolicy, "Name") THEN "Name"
        ELSE IF ~Has(d.HostConfig, "NanoCpus") THEN "NanoCpus"
        ELSE IF ~Has(d.HostConfig, "Memory") THEN "Memory"
        ELSE IF ~Has(d.HostConfig, "LogConfig") THEN "LogConfig"
        ELSE IF ~Has(d.HostConfig.LogConfig, "Type") THEN "Type"
        ELSE IF d.HostConfig.LogConfig.Type # "" /\ ~Has(d.HostConfig.LogConfig, "Config")
             THEN "Config"
        ELSE IF ~Has(d, "NetworkSettings") THEN "NetworkSettings"
        ELSE IF ~Has(d.NetworkSettings, "Networks") THEN "Networks"
        ELSE IF ~Has(d.Config, "Image") THEN "Image"
        ELSE IF ~Has(d.NetworkSettings, "Ports") THEN "Ports"
        ELSE IF ~Has(d, "Mounts") THEN "Mounts"
        ELSE ""

\* One "host:container" string per host binding of one container port.
port_strings(container_port, host_ports) ==
    [k \in 1..Len(host_ports) |->
        host_ports[k].HostPort \o ":" \o split_first(container_port, "/")]

RECURSIVE ports_of(_)
ports_of(items) ==
    IF items = << >> THEN << >>
    ELSE (IF IsNone(items[1][2]) THEN << >>
          ELSE port_strings(items[1][1], Unwrap(items[1][2])))
         \o ports_of(Tail(items))

get_ports(inspect_data) == ports_of(inspect_data.NetworkSettings.Ports)

get_volumes(inspect_data) ==
    [k \in 1..Len(inspect_data.Mounts) |->
        inspect_data.Mounts[k].Source \o ":" \o inspect_data.Mounts[k].Destination]

\* Faulty variant of get_environment: the prefix tested lacks the "=".
get_environment_any_PATH_prefix(inspect_data, include_path_env) ==
    IF ~include_path_env
    THEN SelectSeq(inspect_data.Config.Env, LAMBDA e : ~startswith(e, "PATH"))
    ELSE inspect_data.Config.Env

get_environment(inspect_data, include_path_env) ==
    IF ~include_path_env
    THEN SelectSeq(inspect_data.Config.Env, LAMBDA e : ~startswith(e, "PATH="))
    ELSE inspect_data.Config.Env

get_restart_policy(inspect_data) ==
    LET restart_policy == inspect_data.HostConfig.RestartPolicy
    IN  IF restart_policy.Name # ""
        THEN IF restart_policy.Name = "on-failure"
             THEN << <<"condition", restart_policy.Name>>,
                     <<"max_attempts",
                       IF "MaximumRetryCount" \in DOMAIN restart_policy
                       THEN restart_policy.MaximumRetryCount
                       ELSE 0>> >>
             ELSE << <<"condition", restart_policy.Name>> >>
        ELSE EmptyDict

get_resources(inspect_data) ==
    (IF inspect_data.HostConfig.NanoCpus # 0
     THEN << <<"cpus", float_str(inspect_data.HostConfig.NanoCpus)>> >>
     ELSE << >>)
    \o (IF inspect_data.HostConfig.Memory # 0
        THEN << <<"memory", inspect_data.HostConfig.Memory>> >>
        ELSE << >>)

get_logging(inspect_data) ==
    LET log_config == inspect_data.HostConfig.LogConfig
    IN  IF log_config.Type # ""
        THEN << <<"driver", log_config.Type>>, <<"options", log_config.Config>> >>
        ELSE EmptyDict

get_networks(inspect_data) == keys(inspect_data.NetworkSettings.Networks)

\* Lines 124-135: each optional field is added to service_dict, in this
\* order, only when its content is truthy.
\* Faulty variant of add_optional_fields: networks is added first.
add_optional_fields_networks_first(service_dict, environment, restart_policy, resources, logging_config, networks) ==
    LET d0 == IF networks # << >> THEN setitem(service_dict, "networks", networks)
              ELSE service_dict
        d1 == IF environment # << >> THEN setitem(d0, "environment", environment) ELSE d0
        d2 == IF restart_policy # EmptyDict
              THEN setitem(d1, "deploy", << <<"restart_policy", restart_policy>> >>)
              ELSE d1
        d3 == IF resources # EmptyDict
              THEN LET d2a == IF ~has_key(d2, "deploy")
                              THEN setitem(d2, "deploy", EmptyDict)
                              ELSE d2
                   IN  setitem(d2a, "deploy",
                               setitem(get(d2a, "deploy"), "resources", resources))
              ELSE d2
        d4 == IF logging_config # EmptyDict THEN setitem(d3, "logging", logging_config) ELSE d3
    IN  d4

\* Faulty variant of add_optional_fields: deploy is added unconditionally.
add_optional_fields_deploy_always(service_dict, environment, restart_policy, resources, logging_config, networks) ==
    LET d1 == IF environment # << >> THEN setitem(service_dict, "environment", environment)
              ELSE service_dict
        d2 == setitem(d1, "deploy",
                      IF restart_policy # EmptyDict
                      THEN << <<"restart_policy", restart_policy>> >>
                      ELSE EmptyDict)
        d3 == IF resources # EmptyDict
              THEN setitem(d2, "deploy", setitem(get(d2, "deploy"), "resources", resources))
              ELSE d2
        d4 == IF logging_config # EmptyDict THEN setitem(d3, "logging", logging_config) ELSE d3
        d5 == IF networks # << >> THEN setitem(d4, "networks", networks) ELSE d4
    IN  d5

add_optional_fields(service_dict, environment, restart_policy, resources, logging_config, networks) ==
    LET d1 == IF environment # << >> THEN setitem(service_dict, "environment", environment)
              ELSE service_dict
        d2 == IF restart_policy # EmptyDict
              THEN setitem(d1, "deploy", << <<"restart_policy", restart_policy>> >>)
              ELSE d1
        d3 == IF resources # EmptyDict
              THEN LET d2a == IF ~has_key(d2, "deploy")
                              THEN setitem(d2, "deploy", EmptyDict)
                              ELSE d2
                   IN  setitem(d2a, "deploy",
                               setitem(get(d2a, "deploy"), "resources", resources))
              ELSE d2
        d4 == IF logging_config # EmptyDict THEN setitem(d3, "logging", logging_config) ELSE d3
        d5 == IF networks # << >> THEN setitem(d4, "networks", networks) ELSE d4
    IN  d5

\* service_dict of transform_to_compose, for a record with no missing key.
service_dict_of(service_name, inspect_data, include_path_env) ==
    add_optional_fields(
        << <<"image", inspect_data.Config.Image>>,
           <<"container_name", service_name>>,
           <<"ports", get_ports(inspect_data)>>,
           <<"volumes", get_volumes(inspect_data)>> >>,
        get_environment(inspect_data, include_path_env),
        get_restart_policy(inspect_data),
        get_resources(inspect_data),
        get_logging(inspect_data),
        get_networks(inspect_data))

transform_to_compose(service_name, inspect_data, include_path_env) ==
    << <<"version", "3.8">>,
       <<"services",
         << <<service_name, service_dict_of(service_name, inspect_data, include_path_env)>> >> >> >>

---------------------------------------------------------------------------
(* merge_compose, and the fresh-batch loop of main *)

\* Lines 157-158.
ensure_services(existing_compose) ==
    IF ~has_key(existing_compose, "services")
    THEN setitem(existing_compose, "services", EmptyDict)
    ELSE existing_compose

\* Faulty variant of merge_step: the membership test is dropped.
merge_step_overwrite(existing_compose, new_service) ==
    setitem(existing_compose, "services",
            update(get(existing_compose, "services"), get(new_service, "services")))

\* Faulty variant of merge_step: the membership test is inverted.
merge_step_inverted_test(existing_compose, new_service) ==
    LET service_name == keys(get(new_service, "services"))[1]
    IN  IF has_key(get(existing_compose, "services"), service_name)
        THEN setitem(existing_compose, "services",
                     update(get(existing_compose, "services"), get(new_service, "services")))
        ELSE existing_compose

\* Lines 160-162: one iteration of the loop of merge_compose.
merge_step(existing_compose, new_service) ==
    LET service_name == keys(get(new_service, "services"))[1]
    IN  IF ~has_key(get(existing_compose, "services"), service_name)
        THEN setitem(existing_compose, "services",
                     update(get(existing_compose, "services"), get(new_service, "services")))
        ELSE existing_compose

RECURSIVE merge_loop(_, _)
merge_loop(existing_compose, new_services) ==
    IF new_services = << >> THEN existing_compose
    ELSE merge_loop(merge_step(existing_compose, new_services[1]), Tail(new_services))

merge_compose(existing_compose, new_services) ==
    merge_loop(ensure_services(existing_compose), new_services)

\* Faulty variant of combine_step: a name already present is skipped.
combine_step_keep_first(combined_services, service) ==
    LET service_name == keys(get(service, "services"))[1]
    IN  IF has_key(get(combined_services, "services"), service_name)
        THEN combined_services
        ELSE setitem(combined_services, "services",
                     update(get(combined_services, "services"), get(service, "services")))

\* Line 209: one iteration of the fresh-batch loop.
combine_step(combined_services, service) ==
    setitem(combined_services, "services",
            update(get(combined_services, "services"), get(service, "services")))

RECURSIVE combine_loop(_, _)
combine_loop(combined_services, new_services) ==
    IF new_services = << >> THEN combined_services
    ELSE combine_loop(combine_step(combined_services, new_services[1]), Tail(new_services))

\* Lines 207-209: the document of a run without --add-to.
combine_all(new_services) ==
    combine_loop(<< <<"version", "3.8">>, <<"services", EmptyDict>> >>, new_services)

---------------------------------------------------------------------------
(* Diagnostics: what logging writes to stderr *)

\* str(e) of the exception the SDK raises for each condition of the runtime.
sdk_exception_text(cause, container) ==
    CASE cause = "no_such_container" ->
            "404 Client Error: Not Found (No such container: " \o container \o ")"
      [] cause = "api_error" -> "500 Server Error: Internal Server Error"
      [] OTHER -> "Error while fetching server API version"

\* The command whose failure ends the subprocess fetch.
failing_command(container) ==
    IF container # "" THEN "docker inspect " \o container ELSE "docker ps -q"

\* str(e) of subprocess.CalledProcessError; the docker CLI exits with status 1
\* both for an unknown container and for a daemon it cannot reach.
called_process_error_text(command) ==
    "Command '" \o command \o "' returned non-zero exit status 1."

\* Lines 47-49: get_container_info catches every DockerException itself.
sdk_failure_message(cause, container) ==
    "Docker exception occurred: " \o sdk_exception_text(cause, container)

\* Lines 222-227: the handlers of main that a failed subprocess fetch reaches.
subprocess_failure_message(cause, container) ==
    IF cause = "garbled_output"
    THEN "Error decoding JSON from docker inspect."
    ELSE "Error executing command: " \o called_process_error_text(failing_command(container))

fetch_failure_message(sdk, cause, container) ==
    IF sdk THEN sdk_failure_message(cause, container)
    ELSE subprocess_failure_message(cause, container)

\* The conditions of the runtime under which the fetch fails.
SdkFailures(container) ==
    {"api_error", "daemon_unreachable"}
    \cup (IF container # "" THEN {"no_such_container"} ELSE {})

SubprocessFailures(container) ==
    {"daemon_unreachable", "garbled_output"}
    \cup (IF container # "" THEN {"no_such_container"} ELSE {})

FetchFailures(sdk, container) ==
    IF sdk THEN SdkFailures(container) ELSE SubprocessFailures(container)

---------------------------------------------------------------------------
(* The inspect records and descriptor files the runs draw from *)

HostConfigOf(restart_policy, nano_cpus, memory, log_config) ==
    IF IsNone(nano_cpus)
    THEN [RestartPolicy |-> restart_policy, Memory |-> memory, LogConfig |-> log_config]
    ELSE [RestartPolicy |-> restart_policy, NanoCpus |-> Unwrap(nano_cpus),
          Memory |-> memory, LogConfig |-> log_config]

InspectRecord(name, image, env, restart_policy, nano_cpus, memory, log_config, networks, ports) ==
    [Name |-> name,
     Config |-> [Image |-> image, Env |-> env],
     HostConfig |-> HostConfigOf(restart_policy, nano_cpus, memory, log_config),
     NetworkSettings |-> [Ports |-> ports, Networks |-> networks],
     Mounts |-> << [Source |-> "/data", Destination |-> "/data"] >>]

NoRestart == [Name |-> "", MaximumRetryCount |-> 0]
RestartPolicies ==
    {NoRestart,
     [Name |-> "always", MaximumRetryCount |-> 0],
     [Name |-> "on-failure", MaximumRetryCount |-> 3],
     [Name |-> "on-failure"]}

NanoCpusValues == {None, Some(0), Some(1500000000)}
MemoryValues == {0, 536870912}

NoLog == [Type |-> "", Config |-> EmptyDict]
LogConfigs == {NoLog, [Type |-> "json-file", Config |-> << <<"max-size", "10m">> >>]}

NoNetworks == EmptyDict
NetworkMaps == {NoNetworks, << <<"bridge", "net0">>, <<"backend", "net1">> >>}

Port80 == << <<"80/tcp", Some(<< [HostPort |-> "8080"] >>)>> >>
PortMaps ==
    {EmptyDict,
     Port80,
     << <<"443/tcp", None>>, <<"80/tcp", Some(<< [HostPort |-> "8080"], [HostPort |-> "8081"] >>)>> >>}

EnvEntries == {"PATH=/usr/bin", "FOO=bar", "PATHX=1", "MYPATH=/opt", "PATH="}
EnvLists == UNION {[1..n -> EnvEntries] : n \in 0..MaxEnvLen}
BaseEnv == <<"PATH=/usr/bin", "FOO=bar">>

Names == {"/web", "/db", "/web/"}
Images == {"nginx:latest", "redis:7"}

\* The containers of a run over all running containers: a few names, each
\* with two definitions, and one record of a runtime that reports no NanoCpus.
SmallRecords ==
    {InspectRecord(name, image, BaseEnv, NoRestart, Some(0), 0, NoLog, NoNetworks, Port80) :
        name \in Names, image \in Images}
    \cup {InspectRecord("/old", "nginx:latest", BaseEnv, NoRestart, None, 0, NoLog, NoNetworks,
                        Port80)}

\* The records of a run on one named container: every environment list,
\* every shape of the optional fields, every port map and more names.
EnvRecords ==
    {InspectRecord("/web1", "nginx:latest", env, NoRestart, Some(0), 0, NoLog, NoNetworks, Port80) :
        env \in EnvLists}

ShapeRecords ==
    {InspectRecord("/web1", "nginx:latest", env, h[1], h[2], h[3], n[1], n[2], Port80) :
        env \in {<< >>, <<"PATH=/usr/bin">>, <<"FOO=bar">>},
        h \in RestartPolicies \X NanoCpusValues \X MemoryValues,
        n \in LogConfigs \X NetworkMaps}

PortRecords ==
    {InspectRecord("/web1", "nginx:latest", BaseEnv, NoRestart, Some(0), 0, NoLog, NoNetworks, ports) :
        ports \in PortMaps}

NameRecords ==
    {InspectRecord(name, "nginx:latest", BaseEnv, NoRestart, Some(0), 0, NoLog, NoNetworks, Port80) :
        name \in {"//db", "web1", "/a/b", "/"}}

SingleRecords == SmallRecords \cup EnvRecords \cup ShapeRecords \cup PortRecords \cup NameRecords

ContainerLists == UNION {[1..n -> SmallRecords] : n \in 0..MaxContainers}

\* A hand-edited service of an existing descriptor.
HandEdited(service_name) ==
    << <<"image", "registry.local/" \o service_name \o ":pinned">>,
       <<"container_name", service_name>>,
       <<"ports", << >>>>,
       <<"volumes", << >>>> >>

\* What yaml.safe_load returns for the --add-to file: None for an empty file.
ExistingDocuments ==
    {None,
     Some(<< <<"version", "3.8">> >>),
     Some(<< <<"version", "3.8">>, <<"services", EmptyDict>> >>),
     Some(<< <<"version", "3.8">>, <<"services", << <<"web", HandEdited("web")>> >>>> >>),
     Some(<< <<"version", "3.8">>,
             <<"services", << <<"db", HandEdited("db")>>, <<"cache", HandEdited("cache")>> >>>> >>)}

---------------------------------------------------------------------------
(* One run of main() *)

VARIABLES
    args,                  \* the parsed command line (line 191)
    DOCKER_SDK_AVAILABLE,  \* whether the docker package was imported (lines 10-16)
    pc,                    \* the statement of main the run is at
    cause,                 \* the condition of the runtime the fetch met
    containers_info,       \* line 194
    calls,                 \* how many times transform_to_compose has been called
    new_services,          \* line 195
    existing_compose,      \* << >> until line 203 binds it, then <<loaded value>>
    compose,               \* the document being built: existing_compose as
                           \* merge_compose mutates it, or combined_services
    j,                     \* the next element of new_services in the loop
    error,                 \* the class of the exception that ended the run, "" if none
    log,                   \* the messages written to stderr
    sink,                  \* the documents written by write_compose
    exit_code              \* the exit status, -1 while the run goes on

vars ==
    <<args, DOCKER_SDK_AVAILABLE, pc, cause, containers_info, calls, new_services,
      existing_compose, compose, j, error, log, sink, exit_code>>

Init ==
    /\ args \in [container : {"", "web"},
                 output : {"-", "docker-compose.yml"},
                 include_path_env : BOOLEAN,
                 add_to : {"", "docker-compose.yml"}]
    /\ DOCKER_SDK_AVAILABLE \in BOOLEAN
    /\ pc = "get_container_info"
    /\ cause = "pending"
    /\ containers_info = << >>
    /\ calls = 0
    /\ new_services = << >>
    /\ existing_compose = << >>
    /\ compose = EmptyDict
    /\ j = 1
    /\ error = ""
    /\ log = << >>
    /\ sink = << >>
    /\ exit_code = -1

\* logging.error(message); sys.exit(1), and an uncaught exception alike: the
\* interpreter ends with status 1 and nothing more of main runs.
Fail(exception, message) ==
    /\ error' = exception
    /\ log' = Append(log, message)
    /\ exit_code' = 1
    /\ pc' = "exit"

\* Line 194, the fetch succeeds: one record for a named container, the
\* records of all running containers otherwise.
FetchOk ==
    /\ pc = "get_container_info"
    /\ containers_info' \in
          IF args.container # "" THEN {<<r>> : r \in SingleRecords} ELSE ContainerLists
    /\ cause' = "ok"
    /\ pc' = "transform"
    /\ UNCHANGED <<args, DOCKER_SDK_AVAILABLE, calls, new_services, existing_compose,
                   compose, j, error, log, sink, exit_code>>

\* Lines 39-49: with the SDK, every failure is a DockerException (in
\* docker.errors NotFound is an APIError, and APIError a DockerException),
\* caught inside get_container_info, which logs and exits: the SystemExit
\* passes every handler of main, the one for NotFound of line 213 included.
FetchFailsSdk ==
    /\ pc = "get_container_info"
    /\ DOCKER_SDK_AVAILABLE
    /\ \E c \in SdkFailures(args.container) :
          /\ cause' = c
          /\ Fail("SystemExit", sdk_failure_message(c, args.container))
    /\ UNCHANGED <<args, DOCKER_SDK_AVAILABLE, containers_info, calls, new_services,
                   existing_compose, compose, j, sink>>

\* Lines 50-56 and 222-227: without the SDK, the failure of the docker
\* command or of json.loads propagates to the handlers of main.
FetchFailsSubprocess ==
    /\ pc = "get_container_info"
    /\ ~DOCKER_SDK_AVAILABLE
    /\ \E c \in SubprocessFailures(args.container) :
          /\ cause' = c
          /\ Fail(IF c = "garbled_output" THEN "JSONDecodeError" ELSE "CalledProcessError",
                  subprocess_failure_message(c, args.container))
    /\ UNCHANGED <<args, DOCKER_SDK_AVAILABLE, containers_info, calls, new_services,
                   existing_compose, compose, j, sink>>

\* Faulty variant of Transform: a record with a missing key is skipped.
TransformBestEffort ==
    /\ pc = "transform"
    /\ calls < Len(containers_info)
    /\ calls' = calls + 1
    /\ LET inspect_data == containers_info[calls + 1]
       IN  new_services' =
             IF missing_key(inspect_data) # "" THEN new_services
             ELSE Append(new_services,
                         transform_to_compose(strip(inspect_data.Name, "/"), inspect_data,
                                              args.include_path_env))
    /\ UNCHANGED <<args, DOCKER_SDK_AVAILABLE, pc, cause, containers_info, existing_compose,
                   compose, j, error, log, sink, exit_code>>

\* Lines 195-200 and 228-230: the next element of the list comprehension.  A
\* missing key raises KeyError, which ends the run.
Transform ==
    /\ pc = "transform"
    /\ calls < Len(containers_info)
    /\ calls' = calls + 1
    /\ LET inspect_data == containers_info[calls + 1]
       IN  IF missing_key(inspect_data) # ""
           THEN /\ Fail("KeyError",
                        "Expected key not found in docker inspect data: '"
                            \o missing_key(inspect_data) \o "'")
                /\ UNCHANGED new_services
           ELSE /\ new_services' =
                       Append(new_services,
                              transform_to_compose(strip(inspect_data.Name, "/"), inspect_data,
                                                   args.include_path_env))
                /\ UNCHANGED <<pc, error, log, exit_code>>
    /\ UNCHANGED <<args, DOCKER_SDK_AVAILABLE, cause, containers_info, existing_compose,
                   compose, j, sink>>

\* Lines 202 and 207: the list is complete; with --add-to the existing file
\* is loaded next, otherwise combined_services starts with no service.
Branch ==
    /\ pc = "transform"
    /\ calls = Len(containers_info)
    /\ IF args.add_to # ""
       THEN /\ pc' = "load_existing_compose"
            /\ UNCHANGED compose
       ELSE /\ pc' = "combine"
            /\ compose' = combine_all(<< >>)
    /\ UNCHANGED <<args, DOCKER_SDK_AVAILABLE, cause, containers_info, calls, new_services,
                   existing_compose, j, error, log, sink, exit_code>>

\* Lines 203 and 149-151: the file is read and parsed.
LoadExisting ==
    /\ pc = "load_existing_compose"
    /\ \E loaded \in ExistingDocuments :
          /\ existing_compose' = <<loaded>>
          /\ pc' = "merge_compose"
    /\ UNCHANGED <<args, DOCKER_SDK_AVAILABLE, cause, containers_info, calls, new_services,
                   compose, j, error, log, sink, exit_code>>

\* Lines 231-236: the file is missing, or is not YAML.
LoadFails ==
    /\ pc = "load_existing_compose"
    /\ \/ Fail("FileNotFoundError", "File " \o args.add_to \o " not found.")
       \/ Fail("YAMLError", "Error parsing YAML file: could not find expected ':'")
    /\ UNCHANGED <<args, DOCKER_SDK_AVAILABLE, cause, containers_info, calls, new_services,
                   existing_compose, compose, j, sink>>

\* Lines 157-158: an empty file loads as None, and `"services" not in None`
\* raises a TypeError that no handler of main catches.
MergeBegin ==
    /\ pc = "merge_compose"
    /\ IF IsNone(existing_compose[1])
       THEN /\ Fail("TypeError", "TypeError: argument of type 'NoneType' is not iterable")
            /\ UNCHANGED compose
       ELSE /\ compose' = ensure_services(Unwrap(existing_compose[1]))
            /\ pc' = "merge_loop"
            /\ UNCHANGED <<error, log, exit_code>>
    /\ UNCHANGED <<args, DOCKER_SDK_AVAILABLE, cause, containers_info, calls, new_services,
                   existing_compose, j, sink>>

\* Lines 159-162.
MergeStep ==
    /\ pc = "merge_loop"
    /\ j <= Len(new_services)
    /\ compose' = merge_step(compose, new_services[j])
    /\ j' = j + 1
    /\ UNCHANGED <<args, DOCKER_SDK_AVAILABLE, pc, cause, containers_info, calls,
                   new_services, existing_compose, error, log, sink, exit_code>>

\* Lines 208-209.
CombineStep ==
    /\ pc = "combine"
    /\ j <= Len(new_services)
    /\ compose' = combine_step(compose, new_services[j])
    /\ j' = j + 1
    /\ UNCHANGED <<args, DOCKER_SDK_AVAILABLE, pc, cause, containers_info, calls,
                   new_services, existing_compose, error, log, sink, exit_code>>

\* Lines 205 / 210, 142-146 and 212: the document is written, the success is
\* logged and main returns.  The JSON round trip of line 144 turns the
\* OrderedDict into a dict with the same keys in the same order, and leaves
\* every str, int and list of these documents as it is.
Write ==
    /\ pc \in {"merge_loop", "combine"}
    /\ j > Len(new_services)
    /\ sink' = Append(sink, [output |-> args.output, data |-> compose])
    /\ log' = Append(log, "Docker Compose service definition(s) created successfully.")
    /\ exit_code' = 0
    /\ pc' = "exit"
    /\ UNCHANGED <<args, DOCKER_SDK_AVAILABLE, cause, containers_info, calls, new_services,
                   existing_compose, compose, j, error>>

Next ==
    \/ FetchOk
    \/ FetchFailsSdk
    \/ FetchFailsSubprocess
    \/ Transform
    \/ Branch
    \/ LoadExisting
    \/ LoadFails
    \/ MergeBegin
    \/ MergeStep
    \/ CombineStep
    \/ Write

Spec == Init /\ [][Next]_vars

---------------------------------------------------------------------------
(* Vocabulary of the properties *)

services_of(document) == get(document, "services")

\* The name and the definition of the i-th newly built service.
new_name(i) == keys(services_of(new_services[i]))[1]
new_definition(i) == services_of(new_services[i])[1][2]

\* The services map of the existing descriptor as the merge found it.
MergeStarted == args.add_to # "" /\ pc \in {"merge_loop", "exit"} /\ error = ""
services_before == services_of(ensure_services(Unwrap(existing_compose[1])))

MergeFinished == MergeStarted /\ j > Len(new_services)
FreshFinished ==
    args.add_to = "" /\ pc \in {"combine", "exit"} /\ error = "" /\ j > Len(new_services)

---------------------------------------------------------------------------
(* C1 *)

C1_ExistingEntriesKept ==
    MergeStarted =>
        \A k \in 1..Len(services_before) :
            /\ k <= Len(services_of(compose))
            /\ services_of(compose)[k] = services_before[k]

C1_InsertedIffAbsent ==
    (pc = "merge_loop" /\ j' = j + 1) =>
        LET before == services_of(compose)
            after == services_of(compose')
        IN  IF has_key(before, new_name(j))
            THEN after = before
            ELSE after = Append(before, <<new_name(j), new_definition(j)>>)

\* C1: merge_compose never changes an existing entry.  Every service of the
\* existing descriptor keeps its name, its place and its definition through
\* the merge, and each step of the merge inserts the new service exactly
\* when its name is not a key of the services map at that moment, and
\* changes nothing otherwise.
C1_MergeNeverOverwrites == [](C1_ExistingEntriesKept) /\ [][C1_InsertedIffAbsent]_vars

\* An existing "web" met a newly built, different "web" and kept its
\* definition, while a new name was added.
C1_Witness ==
    /\ MergeFinished /\ pc = "exit"
    /\ has_key(services_before, "web")
    /\ \E i \in 1..Len(new_services) :
          new_name(i) = "web" /\ new_definition(i) # get(services_before, "web")
    /\ \E i \in 1..Len(new_services) : ~has_key(services_before, new_name(i))
    /\ get(services_of(compose), "web") = get(services_before, "web")
    /\ Len(services_of(compose)) > Len(services_before)

---------------------------------------------------------------------------
(* C2 *)

\* The last index of new_services that carries the name.
last_index(name) ==
    CHOOSE i \in 1..Len(new_services) :
        /\ new_name(i) = name
        /\ \A k \in (i + 1)..Len(new_services) : new_name(k) # name

first_index(name) ==
    CHOOSE i \in 1..Len(new_services) :
        /\ new_name(i) = name
        /\ \A k \in 1..(i - 1) : new_name(k) # name

\* C2: without --add-to the final document has version "3.8" and exactly the
\* names of the newly built services, the i-th of them built from the i-th
\* container, each name mapped to the definition built from the last
\* container, in input order, that carries the name.
C2_FreshBatchLastWins ==
    FreshFinished =>
        /\ keys(compose) = <<"version", "services">>
        /\ get(compose, "version") = "3.8"
        /\ Len(new_services) = Len(containers_info)
        /\ \A i \in 1..Len(new_services) :
              new_services[i] =
                 transform_to_compose(new_name(i), containers_info[i], args.include_path_env)
        /\ KeySet(services_of(compose)) = {new_name(i) : i \in 1..Len(new_services)}
        /\ Len(services_of(compose)) = Cardinality(KeySet(services_of(compose)))
        /\ \A name \in KeySet(services_of(compose)) :
              get(services_of(compose), name) = new_definition(last_index(name))
        /\ \A k \in 1..Len(sink) : sink[k].data = compose

\* Two containers with one name and different definitions, written out.
C2_Witness ==
    /\ FreshFinished /\ pc = "exit" /\ Len(sink) = 1
    /\ \E i, k \in 1..Len(new_services) :
          /\ i < k
          /\ new_name(i) = new_name(k)
          /\ new_definition(i) # new_definition(k)
          /\ get(services_of(sink[1].data), new_name(i)) = new_definition(k)

---------------------------------------------------------------------------
(* C10 *)

\* C10: with --add-to, of several new services with one name that the
\* existing descriptor (its services map taken as empty when it has none)
\* lacks, the first in input order is kept, where the fresh-batch loop over
\* the same services keeps the last; and merging the same batch into the
\* result again changes nothing.
C10_MergeFirstWinsIdempotent ==
    MergeFinished =>
        /\ \A i \in 1..Len(new_services) :
              ~has_key(services_before, new_name(i)) =>
                  /\ has_key(services_of(compose), new_name(i))
                  /\ get(services_of(compose), new_name(i))
                        = new_definition(first_index(new_name(i)))
                  /\ get(services_of(combine_all(new_services)), new_name(i))
                        = new_definition(last_index(new_name(i)))
        /\ merge_compose(compose, new_services) = compose

\* A descriptor without a services map received two different services of
\* one name and holds the first.
C10_Witness ==
    /\ MergeFinished /\ pc = "exit" /\ Len(sink) = 1
    /\ ~has_key(Unwrap(existing_compose[1]), "services")
    /\ \E i, k \in 1..Len(new_services) :
          /\ i < k
          /\ new_name(i) = new_name(k)
          /\ new_definition(i) # new_definition(k)
          /\ get(services_of(sink[1].data), new_name(i)) = new_definition(i)

---------------------------------------------------------------------------
(* C3 *)

\* C3: when the named container does not exist, the run ends with exit code
\* 1 and its diagnostic differs from the one the same invocation gets for
\* every other failure of the fetch (API error, unreachable daemon, garbled
\* output), with the SDK and with the subprocess backend alike.
C3_NotFoundDiagnosticDistinct ==
    (pc = "exit" /\ cause = "no_such_container") =>
        /\ exit_code = 1
        /\ \A other \in FetchFailures(DOCKER_SDK_AVAILABLE, args.container) \ {"no_such_container"} :
              log[Len(log)] # fetch_failure_message(DOCKER_SDK_AVAILABLE, other, args.container)

---------------------------------------------------------------------------
(* C4 *)

\* C4: output is all-or-nothing and fail-fast.  A document is in the sink
\* only when the fetch succeeded, every container was extracted and, with
\* --add-to, the existing descriptor was loaded, and then exactly one is; no
\* extraction starts before the fetch has succeeded; after an extraction
\* failure on container N no later container is extracted; and a run that
\* ended by a failure of the fetch, of an extraction or of the load has exit
\* code 1 and an empty sink.
C4_AllOrNothingFailFast ==
    /\ sink # << >> =>
          /\ Len(sink) = 1 /\ pc = "exit" /\ exit_code = 0 /\ error = ""
          /\ cause = "ok"
          /\ calls = Len(containers_info)
          /\ Len(new_services) = Len(containers_info)
          /\ \A i \in 1..Len(containers_info) : missing_key(containers_info[i]) = ""
          /\ args.add_to # "" => existing_compose # << >> /\ ~IsNone(existing_compose[1])
    /\ calls > 0 => cause = "ok"
    /\ cause \notin {"pending", "ok"} =>
          pc = "exit" /\ calls = 0 /\ new_services = << >> /\ existing_compose = << >>
    /\ error = "KeyError" =>
          /\ pc = "exit"
          /\ calls = Len(new_services) + 1
          /\ missing_key(containers_info[calls]) # ""
          /\ existing_compose = << >>
    /\ error # "" => pc = "exit" /\ exit_code = 1 /\ sink = << >>
    /\ pc = "exit" => exit_code \in {0, 1} /\ (exit_code = 0 <=> Len(sink) = 1)

\* The first of two containers failed to extract: the second was never
\* extracted, nothing was loaded or written, and the run ended with 1.
C4_Witness ==
    /\ pc = "exit" /\ error = "KeyError" /\ exit_code = 1 /\ sink = << >>
    /\ Len(containers_info) = 2 /\ calls = 1
    /\ missing_key(containers_info[2]) = ""
    /\ args.add_to # ""

---------------------------------------------------------------------------
(* C5 *)

resources_of(service_dict) ==
    IF has_key(service_dict, "deploy") /\ has_key(get(service_dict, "deploy"), "resources")
    THEN get(get(service_dict, "deploy"), "resources")
    ELSE EmptyDict

\* C5: every record whose NanoCpus is zero or absent is translated, without a
\* failure, to a definition with no cpus field, and the memory limit is in
\* the definition exactly when it is non-zero, whatever the CPU quota.
C5_ZeroOrAbsentCpuQuotaGivesNoCpus ==
    \A i \in 1..calls :
        LET host_config == containers_info[i].HostConfig
        IN  ("NanoCpus" \notin DOMAIN host_config \/ host_config.NanoCpus = 0) =>
               /\ i <= Len(new_services)
               /\ ~has_key(resources_of(new_definition(i)), "cpus")
               /\ has_key(resources_of(new_definition(i)), "memory") <=> host_config.Memory # 0

---------------------------------------------------------------------------
(* C6 *)

\* C6: a built definition has a deploy field exactly when the restart-policy
\* name is non-empty or a resource quota is non-zero; deploy has
\* restart_policy exactly when the name is non-empty and resources exactly
\* when a quota is non-zero, so deploy is never empty.
C6_SparseDeploy ==
    \A i \in 1..Len(new_services) :
        LET host_config == containers_info[i].HostConfig
            named == host_config.RestartPolicy.Name # ""
            limited == host_config.NanoCpus # 0 \/ host_config.Memory # 0
            service_dict == new_definition(i)
        IN  /\ has_key(service_dict, "deploy") <=> (named \/ limited)
            /\ has_key(service_dict, "deploy") =>
                  LET deploy == get(service_dict, "deploy")
                  IN  /\ deploy # EmptyDict
                      /\ KeySet(deploy) \subseteq {"restart_policy", "resources"}
                      /\ has_key(deploy, "restart_policy") <=> named
                      /\ has_key(deploy, "resources") <=> limited
                      /\ has_key(deploy, "restart_policy") =>
                            get(deploy, "restart_policy") # EmptyDict
                      /\ has_key(deploy, "resources") => get(deploy, "resources") # EmptyDict

\* A container with a memory limit and no restart policy: deploy holds
\* resources alone; and one with neither: no deploy.
C6_Witness ==
    /\ Len(new_services) = 1
    /\ containers_info[1].HostConfig.RestartPolicy.Name = ""
    /\ containers_info[1].HostConfig.NanoCpus = 0
    /\ containers_info[1].HostConfig.Memory # 0
    /\ keys(get(new_definition(1), "deploy")) = <<"resources">>

---------------------------------------------------------------------------
(* C7 *)

\* The key of a "KEY=VALUE" entry.
env_key(entry) == split_first(entry, "=")

with_env(inspect_data, env) ==
    [inspect_data EXCEPT !.Config = [inspect_data.Config EXCEPT !.Env = env]]

environment_of(service_dict) ==
    IF has_key(service_dict, "environment") THEN get(service_dict, "environment") ELSE << >>

\* C7: without --include-path-env the environment of a built definition is
\* the list of the record less the entries whose key is exactly PATH, the
\* others in their order and with their duplicates; with it, the list of the
\* record; extracting again from the result gives the result; and the
\* environment field is there exactly when that list is not empty.
C7_EnvironmentFilter ==
    \A i \in 1..Len(new_services) :
        LET env == containers_info[i].Config.Env
            expected == IF args.include_path_env THEN env
                        ELSE SelectSeq(env, LAMBDA e : env_key(e) # "PATH")
            service_dict == new_definition(i)
        IN  /\ has_key(service_dict, "environment") <=> expected # << >>
            /\ environment_of(service_dict) = expected
            /\ get_environment(with_env(containers_info[i], expected), args.include_path_env)
                  = expected

\* PATH is dropped and PATHX, next to it, is kept.
C7_Witness ==
    /\ ~args.include_path_env
    /\ Len(new_services) = 1
    /\ containers_info[1].Config.Env = <<"PATH=/usr/bin", "PATHX=1">>
    /\ environment_of(new_definition(1)) = <<"PATHX=1">>

---------------------------------------------------------------------------
(* C8 *)

\* The assigned name less one leading separator.
without_leading_separator(name) ==
    IF startswith(name, "/") THEN SubSeq(name, 2, Len(name)) ELSE name

\* C8 as claimed: the service name is the assigned name less its leading
\* separator and nothing else, and is both the key and the container_name.
C8_OnlyLeadingSeparatorStripped ==
    \A i \in 1..Len(new_services) :
        /\ new_name(i) = without_leading_separator(containers_info[i].Name)
        /\ get(new_definition(i), "container_name") = new_name(i)

RECURSIVE separators(_)
separators(n) == IF n = 0 THEN "" ELSE "/" \o separators(n - 1)

\* C8 as the code has it: the service name is the assigned name less every
\* separator at its start and at its end, with what lies between untouched;
\* that string is the one key of the built document and the container_name
\* of the definition under it, also in the written fresh-batch document.
C8_SeparatorsStrippedAtBothEnds ==
    /\ \A i \in 1..Len(new_services) :
          LET name == containers_info[i].Name
          IN  /\ \E a, b \in 0..Len(name) :
                    name = separators(a) \o new_name(i) \o separators(b)
              /\ ~startswith(new_name(i), "/")
              /\ new_name(i) = "" \/ SubSeq(new_name(i), Len(new_name(i)), Len(new_name(i))) # "/"
              /\ Len(services_of(new_services[i])) = 1
              /\ get(new_definition(i), "container_name") = new_name(i)
    /\ FreshFinished =>
          \A k \in 1..Len(services_of(compose)) :
              get(services_of(compose)[k][2], "container_name") = services_of(compose)[k][1]

\* "/web/" became the service "web".
C8_Witness ==
    /\ pc = "exit" /\ Len(sink) = 1
    /\ \E i \in 1..Len(new_services) :
          /\ containers_info[i].Name = "/web/"
          /\ new_name(i) = "web"
          /\ get(new_definition(i), "container_name") = "web"

---------------------------------------------------------------------------
(* C9 *)

FieldOrder ==
    <<"image", "container_name", "ports", "volumes", "environment", "deploy", "logging",
      "networks">>

\* C9: the keys of a built definition are, in this order, image,
\* container_name, ports, volumes, environment, deploy, logging, networks,
\* less the absent ones; the first four are always there, and each of the
\* last four is there only with non-empty content.
C9_FieldOrder ==
    \A i \in 1..Len(new_services) :
        LET service_dict == new_definition(i)
        IN  /\ keys(service_dict) = SelectSeq(FieldOrder, LAMBDA f : has_key(service_dict, f))
            /\ SubSeq(keys(service_dict), 1, 4) = SubSeq(FieldOrder, 1, 4)
            /\ \A k \in 5..Len(service_dict) : service_dict[k][2] # << >>

\* A definition with logging and networks and without environment and deploy.
C9_Witness ==
    /\ Len(new_services) = 1
    /\ keys(new_definition(1)) =
          <<"image", "container_name", "ports", "volumes", "logging", "networks">>

=============================================================================
